---- MODULE Spec2Model ----
(***************************************************************************)
(* Model of the chat relay of src/main.py: the in-memory session store     *)
(* `chat_sessions`, the POST /api/chat handler `chat_endpoint` and the     *)
(* upstream call `generate_llm_response`.                                  *)
(*                                                                         *)
(* Python lists are objects: `chat_sessions.get(session_id, [])` returns   *)
(* the stored list itself when the key is present, and a fresh list only   *)
(* when it is absent.  The model therefore keeps a heap of list objects    *)
(* and the store maps a session identifier to a list identity.             *)
(*                                                                         *)
(* A handler runs on a single-threaded event loop and can be suspended     *)
(* only where the code awaits.  The steps of one request are               *)
(*   lines 107-119, 123, 137-144 : body parsed and validated, history      *)
(*                                 fetched, user turn appended, payload    *)
(*                                 built around the same list object;      *)
(*   lines 145-146 (call)        : `async with` awaits the client's        *)
(*                                 __aenter__, where the handler may be    *)
(*                                 suspended and other handlers may run;   *)
(*                                 client.post then serialises the payload *)
(*                                 as the list is at that moment;          *)
(*   lines 146 (resume)-153,                                               *)
(*         124-131               : the response is handled and answered.   *)
(* `await request.json()` (line 108) precedes every access to the store,   *)
(* and the work between the return of client.post and the store at line    *)
(* 129 (including leaving `async with`) touches only locals of the         *)
(* request, so each is merged into the step that follows it.               *)
(***************************************************************************)
EXTENDS Integers, Sequences, FiniteSets, TLC

(* ---------------------------- bounds ----------------------------------- *)
MaxReqs == 3
MaxTextLen == 2

(* ---------------------------- values ----------------------------------- *)
Reqs == 1..MaxReqs
NoList == 0
Sessions == {"s1", "s2"}
Whitespace == {" "}
Chars == {" ", "a"}

Texts == UNION {[1..n -> Chars] : n \in 0..MaxTextLen}

\* An optional JSON value is a set holding zero or one value.
Messages == {<<"h">>, <<"k">>}
OptSession == {{}} \cup {{s} : s \in Sessions \cup {""}}
OptMessage == {{}} \cup {{m} : m \in Messages \cup {<<>>}}

\* Request bodies: not JSON, JSON that is not an object, or an object.
Bodies ==
    [kind : {"unparseable", "array"}, session_id : {{}}, message : {{}}]
    \cup [kind : {"object"}, session_id : OptSession, message : OptMessage]

UserTurn(m) == [role |-> "user", content |-> m]
AssistantTurn(t) == [role |-> "assistant", content |-> t]

\* Upstream outcomes.  A choice is an object whose "text" is missing, null
\* or a string.
Choices ==
    [tkind : {"missing", "null"}, text : {<<>>}]
    \cup [tkind : {"str"}, text : Texts]
\* Lists of two choices: the second one always carries a usable text.
FirstOfTwo ==
    {[tkind |-> "missing", text |-> <<>>], [tkind |-> "str", text |-> <<>>],
     [tkind |-> "str", text |-> <<"a">>]}
SecondChoices == {[tkind |-> "str", text |-> <<"a", "a">>]}
ChoiceLists ==
    {<<>>} \cup {<<c>> : c \in Choices}
    \cup {<<c, d>> : c \in FirstOfTwo, d \in SecondChoices}
Responses ==
    [kind : {"network"}, err : {"ConnectError"},
     has_choices : {FALSE}, choices : {<<>>}]
    \cup [kind : {"status"}, err : {"HTTPStatusError"},
          has_choices : {FALSE}, choices : {<<>>}]
    \cup [kind : {"badjson"}, err : {"JSONDecodeError"},
          has_choices : {FALSE}, choices : {<<>>}]
    \cup [kind : {"json_array"}, err : {""},
          has_choices : {FALSE}, choices : {<<>>}]
    \cup [kind : {"json"}, err : {""},
          has_choices : {FALSE}, choices : {<<>>}]
    \cup [kind : {"json"}, err : {""},
          has_choices : {TRUE}, choices : ChoiceLists]

(* ---------------------------- pure functions --------------------------- *)
RECURSIVE LStrip(_)
LStrip(t) ==
    IF t # <<>> /\ Head(t) \in Whitespace THEN LStrip(Tail(t)) ELSE t

RECURSIVE RStrip(_)
RStrip(t) ==
    IF t # <<>> /\ t[Len(t)] \in Whitespace
    THEN RStrip(SubSeq(t, 1, Len(t) - 1))
    ELSE t

\* Variant: only leading whitespace is removed (lstrip for strip).
StripLeftOnly(t) == LStrip(t)

\* str.strip()
Strip(t) == RStrip(LStrip(t))

Raise(cause) == [ok |-> FALSE, reply |-> <<>>, cause |-> cause]
Return(reply) == [ok |-> TRUE, reply |-> reply, cause |-> ""]

\* Variant: the `if not reply` check of lines 151-152 is left out.
ExtractReplyUnchecked(resp) ==
    LET choices == IF resp.has_choices
                   THEN resp.choices
                   ELSE <<[tkind |-> "missing", text |-> <<>>]>>
    IN  IF Len(choices) = 0 THEN Raise("list index out of range")
        ELSE LET first == choices[1]
             IN  IF first.tkind = "null"
                 THEN Raise("'NoneType' object has no attribute 'strip'")
                 ELSE Return(Strip(IF first.tkind = "missing"
                                   THEN <<>> ELSE first.text))

\* data.get("choices", [{}])[0].get("text", "").strip(), lines 150-153
ExtractReply(resp) ==
    LET choices == IF resp.has_choices
                   THEN resp.choices
                   ELSE <<[tkind |-> "missing", text |-> <<>>]>>
    IN  IF Len(choices) = 0 THEN Raise("list index out of range")
        ELSE LET first == choices[1]
             IN  IF first.tkind = "null"
                 THEN Raise("'NoneType' object has no attribute 'strip'")
                 ELSE LET text == IF first.tkind = "missing"
                                  THEN <<>> ELSE first.text
                          reply == Strip(text)
                      IN  IF reply = <<>>
                          THEN Raise("Empty response from LLM API")
                          ELSE Return(reply)

\* The part of generate_llm_response that runs once client.post is over.
generate_llm_response(resp) ==
    CASE resp.kind \in {"network", "status", "badjson"} -> Raise(resp.err)
      [] resp.kind = "json_array" ->
            Raise("'list' object has no attribute 'get'")
      [] OTHER -> ExtractReply(resp)

\* `not session_id or not message` after data.get(...), lines 108-114
\* A missing key gives None and None, like "", is falsy.
TruthySession(opt) == opt # {} /\ opt # {""}
TruthyMessage(opt) == opt # {} /\ opt # {<<>>}
\* Variant: `message` is only tested for presence, not for emptiness.
ValidPayloadAnyMessage(body) ==
    /\ body.kind = "object"
    /\ TruthySession(body.session_id)
    /\ body.message # {}

ValidPayload(body) ==
    /\ body.kind = "object"
    /\ TruthySession(body.session_id)
    /\ TruthyMessage(body.message)

TheValue(opt) == CHOOSE v \in opt : TRUE

(* ---------------------------- state ------------------------------------ *)
VARIABLES
    chat_sessions,  \* session identifier -> identity of the stored list
    heap,           \* list identity -> contents of the list object
    pc,             \* position of each request
    data,           \* locals of chat_endpoint
    session_id,
    message,
    history,        \* identity of the list bound to `history`
    seen,           \* history-only: was the key present when fetched
    snap,           \* history-only: stored contents when fetched
    alone,          \* history-only: no other request of the session in flight
    raced,          \* history-only: an overlapping request stored first
    sent,           \* the `messages` serialised by client.post
    calls,          \* number of client.post calls of the request
    overlapped,     \* history-only: session had overlapping requests
    failed,         \* history-only: session had a failed upstream call
    okLog,          \* history-only: turns of the successful calls, in order
    pairing,        \* history-only: how the session's requests overlapped
    lastResp        \* the HTTP response sent by the last step, if any

vars == <<chat_sessions, heap, pc, data, session_id, message, history, seen,
          snap, alone, raced, sent, calls, overlapped, failed, okLog,
          pairing, lastResp>>

NoBody == [kind |-> "unparseable", session_id |-> {}, message |-> {}]
NoUpstream == [kind |-> "json", err |-> "", has_choices |-> FALSE,
               choices |-> <<>>]
NoResp == [req |-> 0, status |-> 0, detail |-> <<>>, reply |-> <<>>,
           body |-> NoBody, upstream |-> NoUpstream, sid |-> "",
           msg |-> <<>>, seen |-> FALSE, snap |-> <<>>, alone |-> FALSE,
           raced |-> FALSE, sent |-> <<>>, calls |-> 0]

Present(s) == chat_sessions[s] # NoList
Stored(s) == IF Present(s) THEN heap[chat_sessions[s]] ELSE <<>>
\* The session store as a client could observe it.
StoreView == [s \in Sessions |-> [present |-> Present(s), turns |-> Stored(s)]]

InFlight(r) == pc[r] \in {"entering", "awaiting", "hung"}
Busy(s) == \E q \in Reqs : InFlight(q) /\ session_id[q] = s

Init ==
    /\ chat_sessions = [s \in Sessions |-> NoList]
    /\ heap = [l \in Reqs |-> <<>>]
    /\ pc = [r \in Reqs |-> "idle"]
    /\ data = [r \in Reqs |-> NoBody]
    /\ session_id = [r \in Reqs |-> ""]
    /\ message = [r \in Reqs |-> <<>>]
    /\ history = [r \in Reqs |-> NoList]
    /\ seen = [r \in Reqs |-> FALSE]
    /\ snap = [r \in Reqs |-> <<>>]
    /\ alone = [r \in Reqs |-> FALSE]
    /\ raced = [r \in Reqs |-> FALSE]
    /\ sent = [r \in Reqs |-> <<>>]
    /\ calls = [r \in Reqs |-> 0]
    /\ overlapped = [s \in Sessions |-> FALSE]
    /\ failed = [s \in Sessions |-> FALSE]
    /\ okLog = [s \in Sessions |-> <<>>]
    /\ pairing = [s \in Sessions |-> "none"]
    /\ lastResp = NoResp

\* Requests are numbered in the order in which their bodies arrive.
NextToArrive(r) ==
    /\ pc[r] = "idle"
    /\ \A q \in Reqs : q < r => pc[q] # "idle"

\* How the requests of a session have overlapped since it was last quiet:
\* "solo" one request in flight, "pair" a second one joined it and both
\* fetched a stored history, "half" one of the two has stored, "both" the
\* other has stored too, "other" anything else.
PairingOnAccept(sid) ==
    LET inFlight == {q \in Reqs : InFlight(q) /\ session_id[q] = sid}
    IN  [pairing EXCEPT ![sid] =
            IF inFlight = {} THEN "solo"
            ELSE IF /\ pairing[sid] = "solo"
                    /\ \A q \in inFlight : seen[q]
                 THEN "pair"
                 ELSE "other"]

PairingOnSuccess(sid) ==
    [pairing EXCEPT ![sid] =
        IF @ = "pair" THEN "half"
        ELSE IF @ = "half" THEN "both"
        ELSE IF @ = "solo" THEN "none"
        ELSE "other"]

PairingOnFailure(sid) ==
    [pairing EXCEPT ![sid] = IF @ = "solo" THEN "none" ELSE "other"]

\* The handler returns or raises: its locals are gone.
ClearLocals(r) ==
    /\ data' = [data EXCEPT ![r] = NoBody]
    /\ session_id' = [session_id EXCEPT ![r] = ""]
    /\ message' = [message EXCEPT ![r] = <<>>]
    /\ history' = [history EXCEPT ![r] = NoList]
    /\ seen' = [seen EXCEPT ![r] = FALSE]
    /\ snap' = [snap EXCEPT ![r] = <<>>]
    /\ alone' = [alone EXCEPT ![r] = FALSE]
    /\ sent' = [sent EXCEPT ![r] = <<>>]
    /\ calls' = [calls EXCEPT ![r] = 0]

\* Variant: the history always starts from a new list.
FetchFresh(sid, r) == r

\* Variant: the default list is one shared object (the list of request 1).
FetchShared(sid, r) == IF Present(sid) THEN chat_sessions[sid] ELSE 1

\* Variant: one conversation for everybody, whatever the identifier.
FetchAnyStored(sid, r) ==
    IF \E s \in Sessions : Present(s)
    THEN chat_sessions[CHOOSE s \in Sessions : Present(s)]
    ELSE r

\* chat_sessions.get(session_id, []): the stored list object itself, or a
\* new list (the list of request r) when the key is absent.
Fetch(sid, r) == IF Present(sid) THEN chat_sessions[sid] ELSE r

\* What json=payload serialises: the current contents of the list.
Payload(r) == heap[history[r]]

Answer(r, body, resp, status, detail, reply) ==
    [req |-> r, status |-> status, detail |-> detail, reply |-> reply,
     body |-> body, upstream |-> resp, sid |-> session_id[r],
     msg |-> message[r], seen |-> seen[r], snap |-> snap[r],
     alone |-> alone[r], raced |-> raced[r], sent |-> sent[r],
     calls |-> calls[r]]

(* ---------------------------- actions ---------------------------------- *)
\* chat_endpoint, lines 107-114: the payload is rejected with 400.
RejectWith(r, body) ==
    /\ NextToArrive(r)
    /\ ~ValidPayload(body)
    /\ pc' = [pc EXCEPT ![r] = "done"]
    /\ lastResp' = Answer(r, body, NoUpstream, 400,
                          <<"Invalid request payload">>, <<>>)
    /\ UNCHANGED <<chat_sessions, heap, data, session_id, message, history,
                   seen, snap, alone, raced, sent, calls, overlapped, failed,
                   okLog, pairing>>

Reject(r) == \E body \in Bodies : RejectWith(r, body)

\* chat_endpoint, lines 107-119: the payload is valid, the history is
\* fetched and the user turn is appended to that list object.
AcceptWith(r, body) ==
    /\ NextToArrive(r)
    /\ ValidPayload(body)
    /\ LET sid == TheValue(body.session_id)
           msg == TheValue(body.message)
           lst == Fetch(sid, r)
       IN  /\ data' = [data EXCEPT ![r] = body]
           /\ session_id' = [session_id EXCEPT ![r] = sid]
           /\ message' = [message EXCEPT ![r] = msg]
           /\ history' = [history EXCEPT ![r] = lst]
           /\ seen' = [seen EXCEPT ![r] = Present(sid)]
           /\ snap' = [snap EXCEPT ![r] = Stored(sid)]
           /\ heap' = [heap EXCEPT ![lst] = Append(@, UserTurn(msg))]
           /\ alone' = [q \in Reqs |->
                          IF q = r THEN ~Busy(sid)
                          ELSE IF InFlight(q) /\ session_id[q] = sid
                               THEN FALSE ELSE alone[q]]
           /\ overlapped' = [overlapped EXCEPT ![sid] = @ \/ Busy(sid)]
           /\ pairing' = PairingOnAccept(sid)
    /\ pc' = [pc EXCEPT ![r] = "entering"]
    /\ lastResp' = NoResp
    /\ UNCHANGED <<chat_sessions, raced, sent, calls, failed, okLog>>

Accept(r) == \E body \in Bodies : AcceptWith(r, body)

\* Variant: one upstream call at a time (a lock around the call).
SendSerialized(r) ==
    /\ pc[r] = "entering"
    /\ \A q \in Reqs : pc[q] \notin {"awaiting", "hung"}
    /\ sent' = [sent EXCEPT ![r] = Payload(r)]
    /\ calls' = [calls EXCEPT ![r] = @ + 1]
    /\ pc' = [pc EXCEPT ![r] = "awaiting"]
    /\ lastResp' = NoResp
    /\ UNCHANGED <<chat_sessions, heap, data, session_id, message, history,
                   seen, snap, alone, raced, overlapped, failed, okLog,
                   pairing>>

\* generate_llm_response, line 146: client.post builds the request, which
\* serialises the list that `payload` refers to, and sends it.
Send(r) ==
    /\ pc[r] = "entering"
    /\ sent' = [sent EXCEPT ![r] = Payload(r)]
    /\ calls' = [calls EXCEPT ![r] = @ + 1]
    /\ pc' = [pc EXCEPT ![r] = "awaiting"]
    /\ lastResp' = NoResp
    /\ UNCHANGED <<chat_sessions, heap, data, session_id, message, history,
                   seen, snap, alone, raced, overlapped, failed, okLog,
                   pairing>>

\* Variant: the handler works on its own copy of the fetched history and
\* stores that copy.
SucceedWithOwnCopy(r, resp) ==
    /\ pc[r] = "awaiting"
    /\ LET res == generate_llm_response(resp)
           sid == session_id[r]
       IN  /\ res.ok
           /\ heap' = [heap EXCEPT ![history[r]] =
                          snap[r] \o <<UserTurn(message[r]),
                                       AssistantTurn(res.reply)>>]
           /\ chat_sessions' = [chat_sessions EXCEPT ![sid] = history[r]]
           /\ okLog' = [okLog EXCEPT ![sid] =
                          @ \o <<UserTurn(message[r]),
                                 AssistantTurn(res.reply)>>]
           /\ raced' = [q \in Reqs |->
                          IF q = r THEN FALSE
                          ELSE IF InFlight(q) /\ session_id[q] = sid
                               THEN TRUE ELSE raced[q]]
           /\ pairing' = PairingOnSuccess(sid)
           /\ lastResp' = Answer(r, data[r], resp, 200, <<>>, res.reply)
    /\ pc' = [pc EXCEPT ![r] = "done"]
    /\ ClearLocals(r)
    /\ UNCHANGED <<overlapped, failed>>

\* Variant: the assignment of line 129 is left out.
SucceedWithoutStore(r, resp) ==
    /\ pc[r] = "awaiting"
    /\ LET res == generate_llm_response(resp)
           sid == session_id[r]
       IN  /\ res.ok
           /\ heap' = [heap EXCEPT ![history[r]] =
                          Append(@, AssistantTurn(res.reply))]
           /\ okLog' = [okLog EXCEPT ![sid] =
                          @ \o <<UserTurn(message[r]),
                                 AssistantTurn(res.reply)>>]
           /\ raced' = [q \in Reqs |->
                          IF q = r THEN FALSE
                          ELSE IF InFlight(q) /\ session_id[q] = sid
                               THEN TRUE ELSE raced[q]]
           /\ pairing' = PairingOnSuccess(sid)
           /\ lastResp' = Answer(r, data[r], resp, 200, <<>>, res.reply)
    /\ pc' = [pc EXCEPT ![r] = "done"]
    /\ ClearLocals(r)
    /\ UNCHANGED <<chat_sessions, overlapped, failed>>

\* Lines 146-153 and 127-131: the upstream answered with a usable reply.
SucceedWith(r, resp) ==
    /\ pc[r] = "awaiting"
    /\ LET res == generate_llm_response(resp)
           sid == session_id[r]
       IN  /\ res.ok
           /\ heap' = [heap EXCEPT ![history[r]] =
                          Append(@, AssistantTurn(res.reply))]
           /\ chat_sessions' = [chat_sessions EXCEPT ![sid] = history[r]]
           /\ okLog' = [okLog EXCEPT ![sid] =
                          @ \o <<UserTurn(message[r]),
                                 AssistantTurn(res.reply)>>]
           /\ raced' = [q \in Reqs |->
                          IF q = r THEN FALSE
                          ELSE IF InFlight(q) /\ session_id[q] = sid
                               THEN TRUE ELSE raced[q]]
           /\ pairing' = PairingOnSuccess(sid)
           /\ lastResp' = Answer(r, data[r], resp, 200, <<>>, res.reply)
    /\ pc' = [pc EXCEPT ![r] = "done"]
    /\ ClearLocals(r)
    /\ UNCHANGED <<overlapped, failed>>

Succeed(r) == \E resp \in Responses : SucceedWith(r, resp)

\* Variant: a failed call is repeated once before the 500.
FailWithRetry(r, resp) ==
    /\ pc[r] = "awaiting"
    /\ ~generate_llm_response(resp).ok
    /\ IF calls[r] < 2
       THEN /\ pc' = [pc EXCEPT ![r] = "entering"]
            /\ lastResp' = NoResp
            /\ UNCHANGED <<chat_sessions, heap, data, session_id, message,
                           history, seen, snap, alone, raced, sent, calls,
                           overlapped, failed, okLog, pairing>>
       ELSE /\ lastResp' = Answer(r, data[r], resp, 500,
                                  <<"LLM API error: ",
                                    generate_llm_response(resp).cause>>, <<>>)
            /\ failed' = [failed EXCEPT ![session_id[r]] = TRUE]
            /\ pairing' = PairingOnFailure(session_id[r])
            /\ raced' = [raced EXCEPT ![r] = FALSE]
            /\ pc' = [pc EXCEPT ![r] = "done"]
            /\ ClearLocals(r)
            /\ UNCHANGED <<chat_sessions, heap, overlapped, okLog>>

\* Variant: a failed call drops the session from the store.
FailWithForget(r, resp) ==
    /\ pc[r] = "awaiting"
    /\ LET res == generate_llm_response(resp)
       IN  /\ ~res.ok
           /\ lastResp' = Answer(r, data[r], resp, 500,
                                 <<"LLM API error: ", res.cause>>, <<>>)
    /\ chat_sessions' = [chat_sessions EXCEPT ![session_id[r]] = NoList]
    /\ failed' = [failed EXCEPT ![session_id[r]] = TRUE]
    /\ pairing' = PairingOnFailure(session_id[r])
    /\ raced' = [raced EXCEPT ![r] = FALSE]
    /\ pc' = [pc EXCEPT ![r] = "done"]
    /\ ClearLocals(r)
    /\ UNCHANGED <<heap, overlapped, okLog>>

\* Lines 146-153 and 124-125: the upstream call raised.
FailWith(r, resp) ==
    /\ pc[r] = "awaiting"
    /\ LET res == generate_llm_response(resp)
       IN  /\ ~res.ok
           /\ lastResp' = Answer(r, data[r], resp, 500,
                                 <<"LLM API error: ", res.cause>>, <<>>)
    /\ failed' = [failed EXCEPT ![session_id[r]] = TRUE]
    /\ pairing' = PairingOnFailure(session_id[r])
    /\ raced' = [raced EXCEPT ![r] = FALSE]
    /\ pc' = [pc EXCEPT ![r] = "done"]
    /\ ClearLocals(r)
    /\ UNCHANGED <<chat_sessions, heap, overlapped, okLog>>

Fail(r) == \E resp \in Responses : FailWith(r, resp)

Next ==
    \E r \in Reqs :
        \/ Reject(r)
        \/ Accept(r)
        \/ Send(r)
        \/ Succeed(r)
        \/ Fail(r)

Spec == Init /\ [][Next]_vars

\* Line 146 with an upstream that never answers (no timeout is configured
\* beyond the client's, and none is modelled): from here on the coroutine
\* of request r stays suspended at `await client.post`.
Hang(r) ==
    /\ pc[r] = "awaiting"
    /\ pc' = [pc EXCEPT ![r] = "hung"]
    /\ lastResp' = NoResp
    /\ UNCHANGED <<chat_sessions, heap, data, session_id, message, history,
                   seen, snap, alone, raced, sent, calls, overlapped, failed,
                   okLog, pairing>>

\* Progress does not depend on the texts exchanged: the specification with
\* hanging calls draws its inputs from one body of each kind that matters
\* (unparseable, message missing, valid for each session) and one upstream
\* outcome of each kind (connection error, no usable reply, a reply).
HangBodies ==
    {b \in Bodies :
        \/ b.kind = "unparseable"
        \/ b.kind = "object" /\ b.session_id = {"s1"} /\ b.message = {}
        \/ b.kind = "object" /\ b.session_id \in {{"s1"}, {"s2"}}
                              /\ b.message = {<<"h">>}}

HangResponses ==
    {u \in Responses :
        \/ u.kind = "network"
        \/ u.kind = "json" /\ ~u.has_choices
        \/ u.kind = "json" /\ u.has_choices
                           /\ u.choices = <<[tkind |-> "str",
                                             text |-> <<"a">>]>>}

RejectHang(r) == \E body \in HangBodies : RejectWith(r, body)
AcceptHang(r) == \E body \in HangBodies : AcceptWith(r, body)
SucceedHang(r) == \E resp \in HangResponses : SucceedWith(r, resp)
FailHang(r) == \E resp \in HangResponses : FailWith(r, resp)

NextHang ==
    \E r \in Reqs :
        \/ RejectHang(r)
        \/ AcceptHang(r)
        \/ Send(r)
        \/ SucceedHang(r)
        \/ FailHang(r)
        \/ Hang(r)

\* The event loop runs every coroutine that is ready (Send), and resumes a
\* coroutine whose upstream call has returned (Succeed, Fail); a call that
\* hangs enables neither.  Nothing obliges clients to send requests.
Resume(r) ==
    /\ pc[r] = "awaiting"
    /\ pc' = [pc EXCEPT ![r] = "done"]
    /\ (SucceedHang(r) \/ FailHang(r))

Fairness ==
    \A r \in Reqs :
        /\ WF_vars(Send(r))
        /\ WF_vars(Resume(r))

SpecHang == Init /\ [][NextHang]_vars /\ Fairness

(* ---------------------------- properties ------------------------------- *)
IsPrefix(a, b) == Len(a) <= Len(b) /\ SubSeq(b, 1, Len(a)) = a

HasInk(t) == \E k \in 1..Len(t) : t[k] \notin Whitespace

\* t is raw without its leading and trailing whitespace.
IsTrimOf(t, raw) ==
    \E i, j \in 0..Len(raw) :
        /\ i + Len(t) + j = Len(raw)
        /\ \A k \in 1..i : raw[k] \in Whitespace
        /\ \A k \in (Len(raw) - j + 1)..Len(raw) : raw[k] \in Whitespace
        /\ \A k \in 1..Len(t) : t[k] = raw[i + k]
        /\ t # <<>> => t[1] \notin Whitespace /\ t[Len(t)] \notin Whitespace

\* The upstream call succeeded: a JSON object whose first choice carries a
\* text that is not empty and not only whitespace.
UpstreamUsable(resp) ==
    /\ resp.kind = "json"
    /\ resp.has_choices
    /\ Len(resp.choices) >= 1
    /\ resp.choices[1].tkind = "str"
    /\ HasInk(resp.choices[1].text)

FirstText(resp) == resp.choices[1].text

\* The payload is unparseable or lacks a non-empty session_id or message.
BadPayload(body) ==
    \/ body.kind # "object"
    \/ body.session_id \in {{}, {""}}
    \/ body.message \in {{}, {<<>>}}

\* The body request r carries once it has been read.
BodyOf(r) == IF pc[r] = "done" THEN lastResp.body ELSE data[r]

\* C1: a valid request whose upstream call succeeds, with no other request
\* of the same session in flight, is answered 200 with the first choice's
\* text trimmed, and the stored history of its session is then the history
\* it found followed by its user turn and then its assistant turn.
C1_SuccessfulExchange ==
    (/\ lastResp.req # 0
     /\ ~BadPayload(lastResp.body)
     /\ lastResp.alone
     /\ UpstreamUsable(lastResp.upstream))
    => /\ lastResp.status = 200
       /\ IsTrimOf(lastResp.reply, FirstText(lastResp.upstream))
       /\ StoreView[TheValue(lastResp.body.session_id)] =
            [present |-> TRUE,
             turns |-> lastResp.snap
                       \o <<UserTurn(TheValue(lastResp.body.message)),
                            AssistantTurn(lastResp.reply)>>]

C1_Witness ==
    /\ lastResp.status = 200
    /\ lastResp.alone
    /\ lastResp.seen
    /\ Len(lastResp.upstream.choices) = 1
    /\ FirstText(lastResp.upstream) = <<"a", " ">>
    /\ lastResp.reply = <<"a">>
    /\ Len(lastResp.snap) = 2
    /\ Stored(lastResp.sid) =
         lastResp.snap \o <<UserTurn(lastResp.msg), AssistantTurn(<<"a">>)>>

\* C2: a request whose body is unparseable, or whose session_id or message
\* is missing or empty, ends at once with 400 and leaves the session store
\* (the identifiers and every stored history) as it was.
C2_BadPayloadRejected ==
    [][\A r \in Reqs :
          (pc[r] = "idle" /\ pc'[r] # "idle" /\ BadPayload(BodyOf(r)'))
          => /\ pc'[r] = "done"
             /\ lastResp'.req = r
             /\ lastResp'.status = 400
             /\ StoreView' = StoreView
      ]_vars

C2_Witness ==
    /\ lastResp.status = 400
    /\ lastResp.body.kind = "object"
    /\ lastResp.body.session_id = {"s1"}
    /\ lastResp.body.message = {<<>>}
    /\ Present("s1")
    /\ Busy("s1")

\* C3: when the upstream call of a valid request fails (no other request of
\* the session in flight), the stored history of the session is what the
\* request found: absent if it was unseen, unchanged if it was stored.
C3_FailurePersistsNothing ==
    [][\A r \in Reqs :
          (/\ pc[r] = "awaiting"
           /\ pc'[r] = "done"
           /\ alone[r]
           /\ lastResp'.status = 500)
          => StoreView'[session_id[r]] =
               [present |-> seen[r], turns |-> snap[r]]
      ]_vars

\* C4: when the upstream call of a valid request fails (network error,
\* error status, malformed body, or a reply text that is empty or only
\* whitespace), the request is answered 500 with the cause in the detail,
\* never 200.
C4_UpstreamFailureIs500 ==
    (/\ lastResp.req # 0
     /\ ~BadPayload(lastResp.body)
     /\ ~UpstreamUsable(lastResp.upstream))
    => /\ lastResp.status = 500
       /\ Len(lastResp.detail) = 2
       /\ lastResp.detail[1] = "LLM API error: "
       /\ lastResp.detail[2] # ""
       /\ lastResp.upstream.kind \in {"network", "status", "badjson"}
            => lastResp.detail[2] = lastResp.upstream.err

C4_Witness ==
    /\ lastResp.status = 500
    /\ lastResp.upstream.kind = "json"
    /\ lastResp.upstream.has_choices
    /\ Len(lastResp.upstream.choices) = 1
    /\ lastResp.upstream.choices[1].tkind = "str"
    /\ lastResp.upstream.choices[1].text = <<" ", " ">>
    /\ lastResp.detail[2] = "Empty response from LLM API"

RECURSIVE IsSubseq(_, _)
\* a occurs in b as a subsequence, in order.
IsSubseq(a, b) ==
    IF a = <<>> THEN TRUE
    ELSE IF b = <<>> THEN FALSE
    ELSE IF Head(a) = Head(b) THEN IsSubseq(Tail(a), Tail(b))
    ELSE IsSubseq(a, Tail(b))

\* h is a sequence of user/assistant pairs.
PairsOK(h) ==
    /\ Len(h) % 2 = 0
    /\ \A i \in 1..Len(h) :
          h[i].role = IF i % 2 = 1 THEN "user" ELSE "assistant"

\* C5: after sequential successful calls on a session its stored history is
\* u1, a1, ..., un, an in call order; when failed calls lie in between, the
\* turns of the successful calls still occur in that order.
C5_SequentialOrder ==
    \A s \in Sessions :
        (~overlapped[s] /\ ~Busy(s))
        => /\ IsSubseq(okLog[s], Stored(s))
           /\ ~failed[s] => /\ Stored(s) = okLog[s]
                            /\ Present(s) = (okLog[s] # <<>>)

C5_Witness ==
    \E s \in Sessions :
        /\ ~overlapped[s] /\ ~Busy(s) /\ ~failed[s]
        /\ Len(Stored(s)) = 4
        /\ Stored(s)[1] = UserTurn(<<"h">>)
        /\ Stored(s)[2] = AssistantTurn(<<"a", "a">>)
        /\ Stored(s)[3] = UserTurn(<<"k">>)
        /\ Stored(s)[4] = AssistantTurn(<<"a">>)

\* C6: the turn sequence a request sends upstream is the stored history it
\* fetched (empty if the identifier was unseen) followed by its own user
\* turn as the last element.
C6_SentIsFetchedPlusUser ==
    \A r \in Reqs :
        pc[r] = "awaiting"
        => sent[r] = snap[r] \o <<UserTurn(message[r])>>

C9_PairsOnly ==
    \A s \in Sessions :
        (~overlapped[s] /\ ~Busy(s)) => PairsOK(Stored(s))

\* C10: a request that passes validation has made exactly one upstream call
\* when it responds, a rejected request none, and no request ever makes a
\* second call.
C10_ExactlyOneCall ==
    /\ lastResp.status \in {200, 500} => lastResp.calls = 1
    /\ lastResp.status = 400 => lastResp.calls = 0
    /\ \A r \in Reqs :
          /\ calls[r] <= 1
          /\ pc[r] = "awaiting" => calls[r] = 1
          /\ pc[r] \in {"idle", "entering"} => calls[r] = 0

C10_Witness ==
    /\ lastResp.status = 500
    /\ lastResp.upstream.kind = "status"
    /\ lastResp.calls = 1
    /\ \E r \in Reqs : pc[r] = "awaiting" /\ calls[r] = 1

\* C11: a step of a request never changes what is stored under an
\* identifier other than its own, in any interleaving; and a first request
\* of an unseen identifier that no request of the same identifier overlaps
\* ends with its identifier stored with exactly its own two turns, whatever
\* requests of other identifiers run at the same time.
C11_SessionsIsolated ==
    [][\A r \in Reqs :
          pc'[r] # pc[r]
          => /\ \A s \in Sessions :
                   (s # session_id[r] /\ s # session_id'[r])
                   => StoreView'[s] = StoreView[s]
             /\ (lastResp'.status = 200 /\ ~seen[r] /\ alone[r])
                  => StoreView'[session_id[r]] =
                       [present |-> TRUE,
                        turns |-> <<UserTurn(message[r]),
                                    AssistantTurn(lastResp'.reply)>>]
      ]_vars

\* Request 1 arrived first and answers last, so it overlapped the request
\* that created the other session.
C11_Witness ==
    /\ lastResp.req = 1
    /\ lastResp.status = 200
    /\ ~lastResp.seen
    /\ lastResp.sid = "s1"
    /\ Stored("s1") = <<UserTurn(<<"h">>), AssistantTurn(lastResp.reply)>>
    /\ Len(okLog["s2"]) = 2
    /\ okLog["s2"][1] = UserTurn(<<"k">>)
    /\ Stored("s2") = okLog["s2"]

\* C14: in the state in which a request has just returned 200 with reply r,
\* its identifier is in the store, the last stored turn of that identifier
\* is the assistant turn with r, and the request's user turn is earlier in
\* the same stored history.
C14_ReplyIsLastStoredTurn ==
    lastResp.status = 200
    => LET h == Stored(lastResp.sid)
       IN  /\ Present(lastResp.sid)
           /\ Len(h) >= 2
           /\ h[Len(h)] = [role |-> "assistant", content |-> lastResp.reply]
           /\ \E i \in 1..(Len(h) - 1) :
                 h[i] = [role |-> "user", content |-> lastResp.msg]

\* The request answers after an overlapping one: its user turn is not next
\* to its assistant turn.
C14_Witness ==
    /\ lastResp.status = 200
    /\ lastResp.raced
    /\ lastResp.seen
    /\ lastResp.msg = <<"h">>
    /\ LET h == Stored(lastResp.sid)
       IN  /\ Len(h) = 6
           /\ h[3] = UserTurn(<<"h">>)
           /\ h[4] = UserTurn(<<"k">>)
           /\ h[5].role = "assistant"
           /\ h[6] = AssistantTurn(lastResp.reply)

\* C13: when exactly two requests overlapped on an identifier whose history
\* was stored when each of them fetched it, and both upstream calls
\* succeeded, then in the state in which the second of them has just
\* returned the stored history is the previous history followed by the four
\* new turns: the two user turns in order of arrival, then the two
\* assistant turns in order of completion.
C13_NoTurnLost ==
    (lastResp.status = 200 /\ pairing[lastResp.sid] = "both")
    => LET h == Stored(lastResp.sid)
           log == okLog[lastResp.sid]
           k == Len(log)
           uFirst == log[k - 3]
           aFirst == log[k - 2]
           uLast == [role |-> "user", content |-> lastResp.msg]
           aLast == [role |-> "assistant", content |-> lastResp.reply]
           prev == lastResp.snap
       IN  /\ k >= 4
           /\ \/ h = prev \o <<uLast, uFirst, aFirst, aLast>>
              \/ /\ prev # <<>>
                 /\ prev[Len(prev)] = uFirst
                 /\ h = prev \o <<uLast, aFirst, aLast>>

\* The request that arrived first answers last.
C13_Witness ==
    /\ lastResp.status = 200
    /\ pairing[lastResp.sid] = "both"
    /\ lastResp.req = 2
    /\ lastResp.msg = <<"h">>
    /\ Len(lastResp.snap) = 2
    /\ Stored(lastResp.sid) =
          lastResp.snap \o <<UserTurn(<<"h">>), UserTurn(<<"k">>),
                             okLog[lastResp.sid][4],
                             AssistantTurn(lastResp.reply)>>

\* C12: a request whose upstream call never returns stays suspended and
\* gets no response, and it holds up nobody else: every request past
\* validation whose own call does not hang (of the same or of another
\* session) eventually finishes; a request finishes in the very step that
\* sends its only response, whose status is 200, 400 or 500.
C12_HangBlocksOnlyItself ==
    /\ \A r \in Reqs :
          (pc[r] \in {"entering", "awaiting"}) ~> (pc[r] \in {"done", "hung"})
    /\ [][\A r \in Reqs :
            /\ pc[r] = "hung" => (pc'[r] = "hung" /\ lastResp'.req # r)
            /\ pc[r] = "done" => (pc'[r] = "done" /\ lastResp'.req # r)
            /\ (pc[r] # "done" /\ pc'[r] = "done")
                 <=> (pc[r] \notin {"done", "hung"} /\ lastResp'.req = r)
            /\ lastResp'.req = r => lastResp'.status \in {200, 400, 500}
       ]_vars

\* Request 1 hangs; request 2, of the same session, arrived after it and is
\* answered 200.
C12_Witness ==
    /\ pc[1] = "hung"
    /\ lastResp.req = 2
    /\ lastResp.status = 200
    /\ lastResp.sid = session_id[1]
    /\ pc[3] = "hung"

====
